---- MODULE Spec2Model ----
(***************************************************************************)
(* Model of src/app.py: the load_data aggregation pipeline of the YouTube   *)
(* watch-history dashboard and the Streamlit script that renders its        *)
(* outputs.                                                                 *)
(*                                                                          *)
(* Representation.                                                          *)
(*   - a string is a sequence of characters (one-character TLA+ strings);   *)
(*     the removable phrase "を視聴しました" is the single token "[watched]"  *)
(*   - a raw 'time' string is a record [kind, h]: kind "aware" is an ISO    *)
(*     timestamp ending in Z, "naive" an ISO timestamp without timezone,    *)
(*     "bad" a text that no datetime format parses; h is the wall clock it  *)
(*     spells, in hours since 2024-01-01T00:00                              *)
(*   - a pandas Timestamp is [nat, h, tz]: h is the instant in hours since  *)
(*     2024-01-01T00:00 UTC (wall clock when tz = "naive")                  *)
(*   - a calendar date is the number of days since 2024-01-01               *)
(*   - a value that may be None is a sequence of length 0 (None) or 1       *)
(*   - a DataFrame is the sequence of its rows (records), in row order      *)
(***************************************************************************)
EXTENDS Integers, Sequences, FiniteSets, TLC

\* ---------------------------------------------------------------- bounds
MaxRecords == 3
MaxBoardRecords == 6

\* ------------------------------------------------------------ generic helpers
None == <<>>
Some(v) == <<v>>

Range(s) == {s[i] : i \in DOMAIN s}

\* the rows of s at the positions in keep, in order (boolean indexing)
Take(s, keep) ==
  LET F[i \in 0..Len(s)] ==
        IF i = 0 THEN <<>>
        ELSE IF i \in keep THEN Append(F[i - 1], s[i]) ELSE F[i - 1]
  IN  F[Len(s)]

\* ascending sequence of the elements of a finite set; less is the strict
\* total order on S as a set of pairs
SortedKeys(S, less) ==
  LET F[T \in SUBSET S] ==
        IF T = {} THEN <<>>
        ELSE LET m == CHOOSE x \in T : \A y \in T \ {x} : <<x, y>> \in less
             IN  <<m>> \o F[T \ {m}]
  IN  F[S]

\* distinct values of a sequence in order of first appearance (Series.unique)
RECURSIVE Unique(_)
Unique(s) ==
  IF s = <<>> THEN <<>>
  ELSE LET init == Unique(SubSeq(s, 1, Len(s) - 1))
           last == s[Len(s)]
       IN  IF last \in Range(init) THEN init ELSE Append(init, last)

\* ------------------------------------------------------------ string order
CodePoint(c) ==
  CASE c = " " -> 32 [] c = "&" -> 38 [] c = "=" -> 61 [] c = "?" -> 63
    [] c = "A" -> 65 [] c = "B" -> 66 [] c = "C" -> 67 [] c = "D" -> 68
    [] c = "E" -> 69 [] c = "F" -> 70 [] c = "G" -> 71
    [] c = "X" -> 88 [] c = "Y" -> 89
    [] c = "p" -> 112 [] c = "t" -> 116 [] c = "v" -> 118 [] c = "w" -> 119
    [] OTHER -> 12434

\* Python str comparison: lexicographic by code point
RECURSIVE StrLess(_, _)
StrLess(a, b) ==
  IF b = <<>> THEN FALSE
  ELSE IF a = <<>> THEN TRUE
  ELSE IF CodePoint(Head(a)) # CodePoint(Head(b))
       THEN CodePoint(Head(a)) < CodePoint(Head(b))
       ELSE StrLess(Tail(a), Tail(b))

\* ------------------------------------------------------------ calendar
UtcOffsetTokyo == 9
HoursPerDay == 24
MonthLengths == <<31, 29, 31, 30, 31, 30, 31, 31, 30, 31, 30, 31>>

RECURSIVE MonthDay(_, _)
MonthDay(d, m) ==
  IF d < MonthLengths[m] THEN [year |-> 2024, month |-> m, day |-> d + 1]
  ELSE MonthDay(d - MonthLengths[m], m + 1)

\* calendar fields of a date (days since 2024-01-01, within 2024)
Civil(d) == MonthDay(d, 1)

NaT == [nat |-> TRUE, h |-> 0, tz |-> "naive"]
Timestamp(h, tz) == [nat |-> FALSE, h |-> h, tz |-> tz]

\* Series.dt.tz_convert: the same instant in another zone
tz_convert(ts, zone) == IF ts.nat THEN ts ELSE Timestamp(ts.h, zone)

\* wall clock of a timestamp in its own zone, in hours
WallClock(ts) == IF ts.tz = "Asia/Tokyo" THEN ts.h + UtcOffsetTokyo ELSE ts.h

\* Series.dt.date: the calendar date of the wall clock
dt_date(ts) == WallClock(ts) \div HoursPerDay

\* Series.dt.to_period('M'): the month of the wall clock
to_period_M(ts) == LET c == Civil(dt_date(ts)) IN [year |-> c.year, month |-> c.month]

\* pd.to_datetime of a date: midnight of that date, no timezone
date_to_datetime(d) == Timestamp(d * HoursPerDay, "naive")

PeriodLess(p, q) == p.year < q.year \/ (p.year = q.year /\ p.month < q.month)

\* ------------------------------------------------------------ Event Normalizer
\* pd.to_datetime(..., format='mixed', errors='coerce') on one string
ParseTime(s) ==
  IF s.kind = "aware" THEN Timestamp(s.h, "UTC")
  ELSE IF s.kind = "naive" THEN Timestamp(s.h, "naive")
  ELSE NaT

\* dtype of the parsed column: a column mixing aware and naive strings stays
\* an object column, a column without any aware value is datetime64[ns]
TimeDtype(data) ==
  LET kinds == {data[i].time.kind : i \in DOMAIN data}
  IN  IF "aware" \in kinds /\ "naive" \in kinds THEN "object"
      ELSE IF "aware" \in kinds THEN "datetime64[ns, UTC]"
      ELSE "datetime64[ns]"

\* end of the run of characters other than & that starts at position i
RECURSIVE TokenEnd(_, _)
TokenEnd(url, i) ==
  IF i + 1 <= Len(url) /\ url[i + 1] # "&" THEN TokenEnd(url, i + 1) ELSE i

\* leftmost match of the pattern v=([^&]+) at or after position i
RECURSIVE ExtractFrom(_, _)
ExtractFrom(url, i) ==
  IF i + 2 > Len(url) THEN None
  ELSE IF url[i] = "v" /\ url[i + 1] = "=" /\ url[i + 2] # "&"
       THEN Some(SubSeq(url, i + 2, TokenEnd(url, i + 2)))
       ELSE ExtractFrom(url, i + 1)

\* an extraction that falls back to the whole locator when nothing matches
ExtractVideoIdOrLocator(url) ==
  IF ExtractFrom(url, 1) = None THEN Some(url) ELSE ExtractFrom(url, 1)

\* Series.str.extract(r'v=([^&]+)') on one string; None stands for NaN
ExtractVideoId(url) == ExtractFrom(url, 1)

\* the DataFrame df after lines 18-22
BuildDf(data) ==
  [i \in DOMAIN data |->
     [time |-> ParseTime(data[i].time), titleUrl |-> data[i].titleUrl,
      title |-> data[i].title, video_id |-> ExtractVideoId(data[i].titleUrl)]]

HasVideoId(row) == row.video_id # None

\* df.dropna(subset=['video_id'])
DropNaVideoId(df) == Take(df, {i \in DOMAIN df : HasVideoId(df[i])})

\* df_processed after lines 23-28
BuildProcessed(df) ==
  LET kept == DropNaVideoId(df)
  IN  [i \in DOMAIN kept |->
         [time |-> kept[i].time, video_id |-> kept[i].video_id[1],
          time_jst |-> tz_convert(kept[i].time, "Asia/Tokyo")]]

\* ------------------------------------------------------------ Aggregator
\* groupby drops the rows whose key is missing (NaT)
HasTime(row) == ~row.time_jst.nat

\* the rows that take part in a groupby or value_counts on the JST time
DropNaTime(dfp) == Take(dfp, {i \in DOMAIN dfp : HasTime(dfp[i])})

DailyKeyLess(a, b) == a[1] < b[1] \/ (a[1] = b[1] /\ StrLess(a[2], b[2]))

\* df_daily, lines 29-30: groupby([date, video_id]).size(), keys ascending
BuildDaily(dfp) ==
  LET rows == DropNaTime(dfp)
      K    == {<<dt_date(r.time_jst), r.video_id>> : r \in Range(rows)}
      keys == SortedKeys(K, {p \in K \X K : DailyKeyLess(p[1], p[2])})
  IN  [i \in DOMAIN keys |->
         [time_jst |-> keys[i][1], video_id |-> keys[i][2],
          daily_watch_count |->
             Cardinality({j \in DOMAIN rows :
                            /\ dt_date(rows[j].time_jst) = keys[i][1]
                            /\ rows[j].video_id = keys[i][2]}),
          time |-> date_to_datetime(keys[i][1])]]

CumKeyLess(a, b) ==
  StrLess(a.video_id, b.video_id) \/ (a.video_id = b.video_id /\ a.time.h < b.time.h)

\* stable sort of rows by (video_id, time): insertion into a sorted prefix
InsertRow(sorted, row) ==
  LET after == {i \in DOMAIN sorted : CumKeyLess(row, sorted[i])}
      k == IF after = {} THEN Len(sorted) + 1
           ELSE CHOOSE i \in after : \A j \in after : i <= j
  IN  SubSeq(sorted, 1, k - 1) \o <<row>> \o SubSeq(sorted, k, Len(sorted))

SortRows(s) ==
  LET F[i \in 0..Len(s)] ==
        IF i = 0 THEN <<>> ELSE InsertRow(F[i - 1], s[i])
  IN  F[Len(s)]

\* a running sum that is not restarted for each video_id
GroupCumSumUngrouped(rows, i) ==
  LET F[k \in 0..i] == IF k = 0 THEN 0 ELSE F[k - 1] + rows[k].daily_watch_count
  IN  F[i]

\* groupby('video_id')['daily_watch_count'].cumsum() at row i
GroupCumSum(rows, i) ==
  LET prior == {j \in 1..i : rows[j].video_id = rows[i].video_id}
      F[S \in SUBSET (1..i)] ==
         IF S = {} THEN 0
         ELSE LET j == CHOOSE k \in S : TRUE
              IN  rows[j].daily_watch_count + F[S \ {j}]
  IN  F[prior]

\* df_cumulative, lines 33-34
BuildCumulative(daily) ==
  LET rows == SortRows(daily)
  IN  [i \in DOMAIN rows |->
         [time_jst |-> rows[i].time_jst, video_id |-> rows[i].video_id,
          daily_watch_count |-> rows[i].daily_watch_count, time |-> rows[i].time,
          cumulative_watch_count |-> GroupCumSum(rows, i)]]

\* df_daily_total, lines 37-40: value_counts of the JST dates, sort_index
BuildDailyTotal(dfp) ==
  LET rows == DropNaTime(dfp)
      K    == {dt_date(r.time_jst) : r \in Range(rows)}
      keys == SortedKeys(K, {p \in K \X K : p[1] < p[2]})
  IN  [i \in DOMAIN keys |->
         [date |-> date_to_datetime(keys[i]),
          total_watch_count |->
             Cardinality({j \in DOMAIN rows : dt_date(rows[j].time_jst) = keys[i]})]]

\* Period.astype(str): the label YYYY-MM as its fields
PeriodStr(p) == <<p.year, "-", p.month>>

\* df_monthly_total, lines 44-46
BuildMonthlyTotal(dfp) ==
  LET rows == DropNaTime(dfp)
      K    == {to_period_M(r.time_jst) : r \in Range(rows)}
      keys == SortedKeys(K, {p \in K \X K : PeriodLess(p[1], p[2])})
  IN  [i \in DOMAIN keys |->
         [month |-> PeriodStr(keys[i]),
          total_watch_count |->
             Cardinality({j \in DOMAIN rows : to_period_M(rows[j].time_jst) = keys[i]})]]

\* ------------------------------------------------------------ Metadata Resolver
WatchedSuffix == <<" ", "[watched]">>

\* str.replace(old, ""): remove every occurrence of old, left to right
RECURSIVE RemoveAll(_, _)
RemoveAll(s, old) ==
  IF Len(s) < Len(old) THEN s
  ELSE IF SubSeq(s, 1, Len(old)) = old
       THEN RemoveAll(SubSeq(s, Len(old) + 1, Len(s)), old)
       ELSE <<Head(s)>> \o RemoveAll(Tail(s), old)

\* str.strip(): remove leading and trailing whitespace
RECURSIVE Strip(_)
Strip(s) ==
  IF s = <<>> THEN s
  ELSE IF Head(s) = " " THEN Strip(Tail(s))
  ELSE IF s[Len(s)] = " " THEN Strip(SubSeq(s, 1, Len(s) - 1))
  ELSE s

\* line 52
VideoTitle(title) == Strip(RemoveAll(title, WatchedSuffix))

\* line 53
ThumbnailUrl(video_id) == <<"http://img.youtube.com/vi/">> \o video_id \o <<"/hqdefault.jpg">>

\* video_info_dict, lines 49-57: one entry per video_id, the last row wins
BuildVideoInfo(df) ==
  LET rows == DropNaVideoId(df)
      ids  == {rows[i].video_id[1] : i \in DOMAIN rows}
      LastRow(v) == CHOOSE i \in DOMAIN rows :
                      /\ rows[i].video_id[1] = v
                      /\ \A j \in DOMAIN rows : rows[j].video_id[1] = v => j <= i
  IN  [v \in ids |-> [title |-> VideoTitle(rows[LastRow(v)].title),
                      thumbnail_url |-> ThumbnailUrl(v)]]

\* ------------------------------------------------------------ most watched day / month
\* lines 60-66: the row of the first maximum (idxmax), None for an empty table
MostWatched(table) ==
  IF table = <<>> THEN None
  ELSE Some(table[CHOOSE i \in DOMAIN table :
                    /\ \A j \in DOMAIN table :
                          table[j].total_watch_count <= table[i].total_watch_count
                    /\ \A j \in 1..(i - 1) :
                          table[j].total_watch_count < table[i].total_watch_count])

\* ------------------------------------------------------------ Ranker
NoTitle == <<"no title">>
NoThumbnail == <<"no thumbnail">>

\* lines 70-72: groupby('video_id')['time'].idxmax(), groups in ascending
\* video_id order, each giving its row of latest date
LatestCumulative(cum) ==
  LET V   == {cum[i].video_id : i \in DOMAIN cum}
      ids == SortedKeys(V, {p \in V \X V : StrLess(p[1], p[2])})
      Latest(v) == CHOOSE i \in DOMAIN cum :
                     /\ cum[i].video_id = v
                     /\ \A j \in DOMAIN cum :
                           cum[j].video_id = v => cum[j].time.h <= cum[i].time.h
  IN  [k \in DOMAIN ids |->
         [video_id |-> ids[k],
          cumulative_watch_count |-> cum[Latest(ids[k])].cumulative_watch_count]]

\* lines 74-81: left join with the metadata, or placeholders without metadata
JoinVideoInfo(latest, info) ==
  [k \in DOMAIN latest |->
     [video_id |-> latest[k].video_id,
      cumulative_watch_count |-> latest[k].cumulative_watch_count,
      title |-> IF DOMAIN info = {} THEN Some(NoTitle)
                ELSE IF latest[k].video_id \in DOMAIN info
                     THEN Some(info[latest[k].video_id].title) ELSE None,
      thumbnail_url |-> IF DOMAIN info = {} THEN Some(NoThumbnail)
                        ELSE IF latest[k].video_id \in DOMAIN info
                             THEN Some(info[latest[k].video_id].thumbnail_url)
                             ELSE None]]

\* line 83: sort_values(by='cumulative_watch_count', ascending=False) with the
\* default kind 'quicksort', which is not stable: every arrangement of the
\* rows that is descending by count is a possible result
SortDescending(rows) ==
  LET n == Len(rows)
      perms == {p \in [1..n -> 1..n] :
                  /\ \A i, j \in 1..n : i # j => p[i] # p[j]
                  /\ \A i \in 1..(n - 1) :
                        rows[p[i]].cumulative_watch_count
                          >= rows[p[i + 1]].cumulative_watch_count}
  IN  {[i \in 1..n |-> rows[p[i]]] : p \in perms}

\* the possible values of df_scoreboard, lines 69-85
Scoreboards(cum, info) ==
  IF cum # <<>> THEN SortDescending(JoinVideoInfo(LatestCumulative(cum), info))
  ELSE {<<>>}

\* ------------------------------------------------------------ load_data
NoFile == [present |-> FALSE, json_ok |-> FALSE, data |-> <<>>]
File(ok, data) == [present |-> TRUE, json_ok |-> ok, data |-> data]

\* line 17: json.load raises on a file that is not JSON
JsonLoadRaises(file) == ~file.json_ok

\* line 21: df['time'] raises KeyError when the DataFrame has no columns
TimeColumnMissing(data) == data = <<>>

\* line 28: .dt.tz_convert needs a timezone-aware datetime column
TzConvertRaises(data) == TimeDtype(data) # "datetime64[ns, UTC]"

\* an exception reaches the handler of line 90
Raises(file) ==
  \/ JsonLoadRaises(file)
  \/ TimeColumnMissing(file.data)
  \/ TzConvertRaises(file.data)

\* a handler that returns an empty metadata dict among the None values
AllNoneButDict ==
  [df |-> None, df_processed |-> None, df_daily |-> None, df_cumulative |-> None,
   df_daily_total |-> None, df_monthly_total |-> None, video_info_dict |-> Some(<<>>),
   most_watched_day |-> None, most_watched_month |-> None, df_scoreboard |-> None]

\* lines 92 and 94
AllNone ==
  [df |-> None, df_processed |-> None, df_daily |-> None, df_cumulative |-> None,
   df_daily_total |-> None, df_monthly_total |-> None, video_info_dict |-> None,
   most_watched_day |-> None, most_watched_month |-> None, df_scoreboard |-> None]

\* line 88: the ten outputs of a run without exception; sb is the outcome of
\* the sort of line 83
Computed(data, sb) ==
  LET df   == BuildDf(data)
      dfp  == BuildProcessed(df)
      day  == BuildDaily(dfp)
      tot  == BuildDailyTotal(dfp)
      mon  == BuildMonthlyTotal(dfp)
  IN  [df |-> Some(df), df_processed |-> Some(dfp), df_daily |-> Some(day),
       df_cumulative |-> Some(BuildCumulative(day)),
       df_daily_total |-> Some(tot), df_monthly_total |-> Some(mon),
       video_info_dict |-> Some(BuildVideoInfo(df)),
       most_watched_day |-> MostWatched(tot), most_watched_month |-> MostWatched(mon),
       df_scoreboard |-> Some(sb)]

\* the possible return values of load_data(uploaded_file), lines 12-94
load_data(file) ==
  IF ~file.present THEN {AllNone}
  ELSE IF Raises(file) THEN {AllNone}
  ELSE LET df  == BuildDf(file.data)
           cum == BuildCumulative(BuildDaily(BuildProcessed(df)))
       IN  {Computed(file.data, sb) : sb \in Scoreboards(cum, BuildVideoInfo(df))}

\* line 91: st.error is called in the handler, once per exception
ErrorsReported(file) == IF file.present /\ Raises(file) THEN 1 ELSE 0

\* ------------------------------------------------------------ Calendar Pivot Builder
NaN == [nan |-> TRUE, v |-> 0]
Num(n) == [nan |-> FALSE, v |-> n]

\* weekday_map, lines 171 and 294
weekday_map == <<"Mon", "Tue", "Wed", "Thu", "Fri", "Sat", "Sun">>

\* Series.dt.dayofweek (Monday = 0); 2024-01-01 is a Monday
dayofweek(d) == d % 7

Weekday(d) == weekday_map[dayofweek(d) + 1]

\* the weekday labels in the ascending string order pivot_table gives its index
SortedWeekdayLabels == <<"Fri", "Mon", "Sat", "Sun", "Thu", "Tue", "Wed">>

ColumnKey(d) == LET c == Civil(d) IN <<c.year, c.month, c.day>>

ColumnLess(a, b) ==
  \/ a[1] < b[1]
  \/ a[1] = b[1] /\ a[2] < b[2]
  \/ a[1] = b[1] /\ a[2] = b[2] /\ a[3] < b[3]

\* pd.pivot_table(index='weekday', columns=['month_year', 'day'], fill_value=0):
\* one row per weekday present, one column per (month_year, day) present,
\* the value of the date in its cell and 0 in the cells without a date
pivot_table(series) ==
  LET present == {Weekday(series[i].date) : i \in DOMAIN series}
      index   == Take(SortedWeekdayLabels,
                      {i \in DOMAIN SortedWeekdayLabels : SortedWeekdayLabels[i] \in present})
      C       == {ColumnKey(series[i].date) : i \in DOMAIN series}
      columns == SortedKeys(C, {p \in C \X C : ColumnLess(p[1], p[2])})
      Hits(w, c) == {i \in DOMAIN series :
                       Weekday(series[i].date) = w /\ ColumnKey(series[i].date) = c}
  IN  [index |-> index, columns |-> columns,
       cell |-> [w \in Range(index), c \in Range(columns) |->
                   IF Hits(w, c) = {} THEN Num(0)
                   ELSE Num(series[CHOOSE i \in Hits(w, c) : TRUE].value)]]

\* DataFrame.reindex(labels): the rows in the order of labels; a label that
\* the table does not have gets a row of NaN
reindex(table, labels) ==
  [index |-> labels, columns |-> table.columns,
   cell |-> [w \in Range(labels), c \in Range(table.columns) |->
               IF w \in Range(table.index) THEN table.cell[w, c] ELSE NaN]]

\* lines 163-187 and 286-310
HeatmapPivot(series) == reindex(pivot_table(series), weekday_map)

\* ------------------------------------------------------------ main script
OverallOption == <<"--- overall ---">>

\* lines 126-133: the options of the selectbox
SelectOptions(res) ==
  <<OverallOption>> \o
  (IF res.df_processed # None
   THEN Unique([i \in DOMAIN res.df_processed[1] |-> res.df_processed[1][i].video_id])
   ELSE <<>>)

\* lines 279 and 286: table[table['video_id'] == video_id]
FilterVideo(table, video_id) ==
  Take(table, {i \in DOMAIN table : table[i].video_id = video_id})

\* lines 163-166: the overall series, the date read from the datetime column
OverallSeries(daily_total) ==
  [i \in DOMAIN daily_total |->
     [date |-> dt_date(daily_total[i].date), value |-> daily_total[i].total_watch_count]]

\* lines 286-293: the series of one video, the date read from time_jst
VideoSeries(daily, video_id) ==
  LET rows == FilterVideo(daily, video_id)
  IN  [i \in DOMAIN rows |->
         [date |-> rows[i].time_jst, value |-> rows[i].daily_watch_count]]

NoPage == [sections |-> {}, options |-> <<>>, scoreboard |-> <<>>, pivot |-> None]

\* lines 145-264: the overall view
OverallView(res) ==
  LET sb  == res.df_scoreboard
      tot == res.df_daily_total
      mon == res.df_monthly_total
      hasSb  == sb # None /\ sb[1] # <<>>
      hasTot == tot # None /\ tot[1] # <<>>
      hasMon == mon # None /\ mon[1] # <<>>
  IN  [sections |->
          {"raw_preview"}
          \cup (IF hasSb THEN {"scoreboard"} ELSE {"scoreboard_info"})
          \cup (IF hasTot THEN {"heatmap", "daily_chart"} ELSE {})
          \cup (IF res.most_watched_day # None THEN {"most_watched_day"}
                ELSE {"most_watched_day_info"})
          \cup (IF hasMon THEN {"monthly_chart"} ELSE {})
          \cup (IF res.most_watched_month # None THEN {"most_watched_month"} ELSE {}),
       options |-> SelectOptions(res),
       scoreboard |-> IF hasSb THEN sb[1] ELSE <<>>,
       pivot |-> IF hasTot THEN Some(HeatmapPivot(OverallSeries(tot[1]))) ELSE None]

\* lines 266-383: the view of one video
VideoView(res, video_id) ==
  LET info     == res.video_info_dict[1]
      hasInfo  == video_id \in DOMAIN info
      filtered == FilterVideo(res.df_cumulative[1], video_id)
      series   == VideoSeries(res.df_daily[1], video_id)
  IN  [sections |->
          {"raw_preview"}
          \cup (IF ~hasInfo THEN {"video_info_warning"}
                ELSE {"video_title"}
                     \cup (IF filtered = <<>> THEN {"video_data_warning"}
                           ELSE {"daily_bar", "cumulative_line", "detail_data"}
                                \cup (IF series # <<>> THEN {"heatmap"}
                                      ELSE {"heatmap_info"}))),
       options |-> SelectOptions(res),
       scoreboard |-> <<>>,
       pivot |-> IF hasInfo /\ filtered # <<>> /\ series # <<>>
                 THEN Some(HeatmapPivot(series)) ELSE None]

\* lines 393-394
UploadPrompt ==
  [sections |-> {"upload_prompt"}, options |-> <<>>, scoreboard |-> <<>>, pivot |-> None]

\* lines 123-394: the page for one choice of the selectbox
Page(res, selected) ==
  IF res.df = None THEN UploadPrompt
  ELSE IF selected = OverallOption THEN OverallView(res)
  ELSE VideoView(res, selected)

\* ------------------------------------------------------------ inputs
AwareHours == {10, 20, 736}
NaiveHours == {10}

Stamps ==
  {[kind |-> "aware", h |-> h] : h \in AwareHours}
  \cup {[kind |-> "naive", h |-> h] : h \in NaiveHours}
  \cup {[kind |-> "bad", h |-> 0]}

Locators ==
  { [titleUrl |-> <<"w", "?", "v", "=", "A">>, title |-> <<"X", " ", "[watched]">>],
    [titleUrl |-> <<"w", "?", "v", "=", "B", "&", "t">>, title |-> <<" ", "Y", " ">>],
    [titleUrl |-> <<"p", "?", "v", "=", "&", "v">>, title |-> <<"X", " ", "[watched]">>] }

Records ==
  {[time |-> t, titleUrl |-> l.titleUrl, title |-> l.title] : t \in Stamps, l \in Locators}

BoardIds == <<"A", "B", "C", "D", "E", "F">>

BoardRecord(k) ==
  [time |-> [kind |-> "aware", h |-> 10],
   titleUrl |-> <<"w", "?", "v", "=", BoardIds[k]>>,
   title |-> <<"X", " ", "[watched]">>]

\* ------------------------------------------------------------ state machine
VARIABLES uploaded_file, results, errors, pc, selected_video_id, page

vars == <<uploaded_file, results, errors, pc, selected_video_id, page>>

Init ==
  /\ uploaded_file = NoFile
  /\ results = AllNone
  /\ errors = 0
  /\ pc = "upload"
  /\ selected_video_id = None
  /\ page = NoPage

\* the user picks a file in the uploader of line 118
ChooseFile ==
  /\ pc = "upload"
  /\ ~uploaded_file.present
  /\ \E ok \in BOOLEAN : uploaded_file' = File(ok, <<>>)
  /\ UNCHANGED <<results, errors, pc, selected_video_id, page>>

\* one more record in the JSON list of the file
AddRecord ==
  /\ pc = "upload"
  /\ uploaded_file.present /\ uploaded_file.json_ok
  /\ Len(uploaded_file.data) < MaxRecords
  /\ \E r \in Records :
        uploaded_file' = File(TRUE, Append(uploaded_file.data, r))
  /\ UNCHANGED <<results, errors, pc, selected_video_id, page>>

\* one more record in a file that lists its videos in video_id order
AddBoardRecord ==
  /\ pc = "upload"
  /\ uploaded_file.present /\ uploaded_file.json_ok
  /\ Len(uploaded_file.data) < MaxBoardRecords
  /\ \E k \in DOMAIN BoardIds :
        /\ IF uploaded_file.data = <<>> THEN TRUE
           ELSE ~StrLess(BoardRecord(k).titleUrl,
                         uploaded_file.data[Len(uploaded_file.data)].titleUrl)
        /\ uploaded_file' = File(TRUE, Append(uploaded_file.data, BoardRecord(k)))
  /\ UNCHANGED <<results, errors, pc, selected_video_id, page>>

\* line 121: the script calls load_data
LoadData ==
  /\ pc = "upload"
  /\ results' \in load_data(uploaded_file)
  /\ errors' = errors + ErrorsReported(uploaded_file)
  /\ pc' = "loaded"
  /\ UNCHANGED <<uploaded_file, selected_video_id, page>>

\* lines 123-394: the script renders the page for the selected option
Render ==
  /\ pc = "loaded"
  /\ \E sel \in Range(SelectOptions(results)) :
        /\ selected_video_id' = IF results.df = None THEN None ELSE Some(sel)
        /\ page' = Page(results, sel)
  /\ pc' = "rendered"
  /\ UNCHANGED <<uploaded_file, results, errors>>

Next == ChooseFile \/ AddRecord \/ LoadData \/ Render

Spec == Init /\ [][Next]_vars

NextBoard == ChooseFile \/ AddBoardRecord \/ LoadData \/ Render

SpecBoard == Init /\ [][NextBoard]_vars

\* ------------------------------------------------------------ properties
Loaded == pc \in {"loaded", "rendered"}

\* load_data returned its computed outputs
LoadOk == Loaded /\ results.df # None

data == uploaded_file.data

\* the positions of a locator where "v=" is followed by a character other than &
MatchStarts(url) ==
  {i \in 1..(Len(url) - 2) : url[i] = "v" /\ url[i + 1] = "=" /\ url[i + 2] # "&"}

HasMatch(url) == MatchStarts(url) # {}

\* the token after the first such "v=", up to the next & or the end
MatchedId(url) ==
  LET i    == CHOOSE k \in MatchStarts(url) : \A m \in MatchStarts(url) : k <= m
      amps == {k \in (i + 2)..Len(url) : url[k] = "&"} \cup {Len(url) + 1}
      stop == CHOOSE k \in amps : \A m \in amps : k <= m
  IN  SubSeq(url, i + 2, stop - 1)

\* the record's timestamp parses and its locator carries a video id v
IsEventOf(r, v) == r.time.kind # "bad" /\ HasMatch(r.titleUrl) /\ MatchedId(r.titleUrl) = v

\* number of normalized events of video v in the uploaded batch
EventCount(v) == Cardinality({i \in DOMAIN data : IsEventOf(data[i], v)})

\* the video ids carried by the locators of the batch
LocatorIds ==
  {MatchedId(data[i].titleUrl) : i \in {j \in DOMAIN data : HasMatch(data[j].titleUrl)}}

\* number of records with a video id and a parsed timestamp that satisfy P
CountEvents(P(_)) ==
  Cardinality({i \in DOMAIN data :
                 /\ data[i].time.kind # "bad"
                 /\ HasMatch(data[i].titleUrl)
                 /\ P(data[i])})

\* the JST calendar date of a timestamp read as UTC
JstDate(r) == (r.time.h + 9) \div 24

SumCol(s, G(_)) ==
  LET F[i \in 0..Len(s)] == IF i = 0 THEN 0 ELSE F[i - 1] + G(s[i])
  IN  F[Len(s)]

RowsOf(table, v) == Take(table, {i \in DOMAIN table : table[i].video_id = v})

DailySum(table, v) == SumCol(RowsOf(table, v), LAMBDA r : r.daily_watch_count)

\* C1: after a load without error, for every item the cumulative counts of its
\* rows in df_cumulative, read in ascending date order, are non-decreasing,
\* each equals the sum of the item's daily counts over the dates up to and
\* including its own, and the last equals the number of normalized events of
\* the item (records whose timestamp parsed and whose locator matched)
C1_CumulativeIsRunningSum ==
  LoadOk =>
    \A v \in LocatorIds :
       LET cum   == RowsOf(results.df_cumulative[1], v)
           daily == RowsOf(results.df_daily[1], v)
       IN  /\ \A i \in DOMAIN cum : \A j \in DOMAIN cum :
                 i < j => /\ cum[i].time.h < cum[j].time.h
                          /\ cum[i].cumulative_watch_count <= cum[j].cumulative_watch_count
           /\ \A i \in DOMAIN cum :
                 cum[i].cumulative_watch_count =
                   SumCol(Take(daily, {k \in DOMAIN daily :
                                         daily[k].time_jst <= cum[i].time_jst}),
                          LAMBDA r : r.daily_watch_count)
           /\ (cum = <<>>) = (EventCount(v) = 0)
           /\ cum # <<>> => cum[Len(cum)].cumulative_watch_count = EventCount(v)

\* an item with rows on two dates, after an item that sorts before it
C1_Witness ==
  /\ LoadOk
  /\ \E v, w \in LocatorIds :
        /\ StrLess(w, v)
        /\ Len(RowsOf(results.df_cumulative[1], w)) >= 1
        /\ Len(RowsOf(results.df_cumulative[1], v)) >= 2

\* C2: after a load without error, for every item the daily counts of its rows
\* in df_daily add up to the number of rows of df_processed that carry the
\* item, and df_daily has one row for each (item, date) pair
C2_DailySumEqualsProcessedRows ==
  LoadOk =>
    /\ \A v \in LocatorIds :
          DailySum(results.df_daily[1], v) = Len(RowsOf(results.df_processed[1], v))
    /\ \A i, j \in DOMAIN results.df_daily[1] :
          (/\ results.df_daily[1][i].video_id = results.df_daily[1][j].video_id
           /\ results.df_daily[1][i].time_jst = results.df_daily[1][j].time_jst) => i = j

\* C3: the leaderboard returned by load_data has at most 5 entries
C3_ScoreboardAtMostFive ==
  LoadOk => Len(results.df_scoreboard[1]) <= 5

\* position of the first normalized event of a video in the event stream
FirstEncounter(v) ==
  CHOOSE i \in DOMAIN results.df_processed[1] :
     /\ results.df_processed[1][i].video_id = v
     /\ \A j \in 1..(i - 1) : results.df_processed[1][j].video_id # v

\* C4: the leaderboard is descending by latest cumulative count, and entries
\* of equal count are in the order in which their items were first encountered
C4_ScoreboardOrder ==
  LoadOk =>
    LET sb == results.df_scoreboard[1]
    IN  \A i, j \in DOMAIN sb :
           i < j =>
             /\ sb[i].cumulative_watch_count >= sb[j].cumulative_watch_count
             /\ sb[i].cumulative_watch_count = sb[j].cumulative_watch_count
                  => FirstEncounter(sb[i].video_id) < FirstEncounter(sb[j].video_id)

\* the (date, count) series behind the heatmap of the rendered page
RenderedSeries ==
  IF selected_video_id = Some(OverallOption)
  THEN OverallSeries(results.df_daily_total[1])
  ELSE VideoSeries(results.df_daily[1], selected_video_id[1])

\* C5: the pivot of a rendered heatmap has the 7 rows Mon..Sun in that order,
\* and every cell whose (weekday, month, day) has no input row holds 0
C5_PivotDenseSevenRows ==
  (pc = "rendered" /\ page.pivot # None) =>
    LET pv == page.pivot[1]
    IN  /\ pv.index = <<"Mon", "Tue", "Wed", "Thu", "Fri", "Sat", "Sun">>
        /\ \A w \in Range(pv.index) : \A c \in Range(pv.columns) :
              (~\E i \in DOMAIN RenderedSeries :
                   /\ Weekday(RenderedSeries[i].date) = w
                   /\ ColumnKey(RenderedSeries[i].date) = c)
                => pv.cell[w, c] = Num(0)

\* no record of the batch is usable after normalization
NoUsableRecord ==
  \A i \in DOMAIN data :
     data[i].time.kind = "bad" \/ ~HasMatch(data[i].titleUrl)

\* C6: for an empty batch load_data reports no error and returns every
\* derived table empty, both most-watched values None, an empty leaderboard
C6_EmptyInputGivesEmptyTables ==
  (Loaded /\ uploaded_file.present /\ uploaded_file.json_ok /\ NoUsableRecord) =>
    /\ errors = 0
    /\ results.df_daily = Some(<<>>)
    /\ results.df_cumulative = Some(<<>>)
    /\ results.df_daily_total = Some(<<>>)
    /\ results.df_monthly_total = Some(<<>>)
    /\ results.most_watched_day = None
    /\ results.most_watched_month = None
    /\ results.df_scoreboard = Some(<<>>)

\* the batch has a record whose timestamp does not parse, every other
\* timestamp being one with a timezone
HasUnparsableRecord ==
  /\ uploaded_file.present /\ uploaded_file.json_ok
  /\ \E i \in DOMAIN data : data[i].time.kind = "bad"
  /\ \A i \in DOMAIN data : data[i].time.kind \in {"bad", "aware"}

\* the video ids of the records whose timestamp parses
ParsedIds == {v \in LocatorIds : EventCount(v) > 0}

\* C7: a record whose timestamp fails to parse does not fail the batch and
\* contributes to no derived output: no table row, no leaderboard entry, no
\* metadata entry and no selectable item carries a video id that only such
\* records carry
C7_UnparsableRecordDropped ==
  (Loaded /\ HasUnparsableRecord) =>
    /\ results.df # None
    /\ errors = 0
    /\ {r.video_id : r \in Range(results.df_daily[1])} \subseteq ParsedIds
    /\ {r.video_id : r \in Range(results.df_cumulative[1])} \subseteq ParsedIds
    /\ {r.video_id : r \in Range(results.df_scoreboard[1])} \subseteq ParsedIds
    /\ SumCol(results.df_daily_total[1], LAMBDA r : r.total_watch_count)
         = CountEvents(LAMBDA e : TRUE)
    /\ SumCol(results.df_monthly_total[1], LAMBDA r : r.total_watch_count)
         = CountEvents(LAMBDA e : TRUE)
    /\ DOMAIN results.video_info_dict[1] \subseteq ParsedIds
    /\ Range(SelectOptions(results)) \subseteq ParsedIds \cup {OverallOption}

\* C8: a record whose locator has no v=<token> match is counted in no
\* aggregate and has no metadata entry, the other records are counted, and a
\* batch of timestamps with timezone loads whether or not its locators match
C8_UnmatchedLocatorExcluded ==
  /\ LoadOk =>
       /\ \A r \in Range(results.df_daily[1]) :
             r.daily_watch_count =
               CountEvents(LAMBDA e : /\ MatchedId(e.titleUrl) = r.video_id
                                      /\ JstDate(e) = r.time_jst)
       /\ SumCol(results.df_daily[1], LAMBDA r : r.daily_watch_count)
            = CountEvents(LAMBDA e : TRUE)
       /\ \A r \in Range(results.df_daily_total[1]) :
             r.total_watch_count = CountEvents(LAMBDA e : JstDate(e) = dt_date(r.date))
       /\ SumCol(results.df_daily_total[1], LAMBDA r : r.total_watch_count)
            = CountEvents(LAMBDA e : TRUE)
       /\ SumCol(results.df_monthly_total[1], LAMBDA r : r.total_watch_count)
            = CountEvents(LAMBDA e : TRUE)
       /\ \A r \in Range(results.df_cumulative[1]) : r.video_id \in LocatorIds
       /\ {r.video_id : r \in Range(results.df_scoreboard[1])} = ParsedIds
       /\ \A r \in Range(results.df_scoreboard[1]) :
             r.cumulative_watch_count = EventCount(r.video_id)
       /\ DOMAIN results.video_info_dict[1] = LocatorIds
  /\ (/\ Loaded /\ uploaded_file.present /\ uploaded_file.json_ok /\ data # <<>>
      /\ \A i \in DOMAIN data : data[i].time.kind = "aware")
       => results.df # None

\* a loaded batch with an unmatched record and a matched one, both with a
\* parsed timestamp
C8_Witness ==
  /\ LoadOk
  /\ \E i, j \in DOMAIN data :
        /\ data[i].time.kind = "aware" /\ ~HasMatch(data[i].titleUrl)
        /\ data[j].time.kind = "aware" /\ HasMatch(data[j].titleUrl)

AllTen(res, P(_)) ==
  /\ P(res.df) /\ P(res.df_processed) /\ P(res.df_daily) /\ P(res.df_cumulative)
  /\ P(res.df_daily_total) /\ P(res.df_monthly_total) /\ P(res.video_info_dict)
  /\ P(res.most_watched_day) /\ P(res.most_watched_month) /\ P(res.df_scoreboard)

\* C9: a batch-level failure is reported once and gives all ten outputs as
\* None, never a mix of None and computed tables, and the page then shows
\* the upload prompt and no analysis section
C9_FailureReturnsAllNone ==
  Loaded =>
    /\ errors <= 1
    /\ errors = 1 => uploaded_file.present /\ results.df = None
    /\ (uploaded_file.present /\ results.df = None) => errors = 1
    /\ results.df = None => AllTen(results, LAMBDA x : x = None)
    /\ results.df # None =>
         /\ results.df_processed # None /\ results.df_daily # None
         /\ results.df_cumulative # None /\ results.df_daily_total # None
         /\ results.df_monthly_total # None /\ results.video_info_dict # None
         /\ results.df_scoreboard # None
    /\ (pc = "rendered" /\ results.df = None) => page.sections = {"upload_prompt"}
    /\ (pc = "rendered" /\ results.df # None) => "upload_prompt" \notin page.sections

\* the page rendered after a reported failure of a batch with records
C9_Witness ==
  pc = "rendered" /\ errors = 1 /\ uploaded_file.json_ok /\ data # <<>>

\* C10: a batch whose timestamps all parse, some without timezone, loads, and
\* every record is counted on the JST date of its timestamp read as UTC
C10_NaiveTimestampTreatedAsUtc ==
  (/\ Loaded /\ uploaded_file.present /\ uploaded_file.json_ok
   /\ \E i \in DOMAIN data : data[i].time.kind = "naive"
   /\ \A i \in DOMAIN data : data[i].time.kind \in {"naive", "aware"}) =>
    /\ results.df # None
    /\ \A i \in DOMAIN data :
          HasMatch(data[i].titleUrl) =>
            \E r \in Range(results.df_daily_total[1]) :
               /\ dt_date(r.date) = JstDate(data[i])
               /\ r.total_watch_count =
                    CountEvents(LAMBDA e : JstDate(e) = JstDate(data[i]))

====
